---- MODULE Spec2Model ----
(***************************************************************************)
(* QueueCTL: the job store (db.py), the claim protocol                     *)
(* (fetch_pending_job), the failure/retry engine (update_job_on_failure,   *)
(* retry_dead_job) and the worker loop (worker.py), as a state machine.    *)
(*                                                                         *)
(* Time is counted in ticks, TicksPerSecond ticks to the second.           *)
(* datetime.utcnow() reads the clock at tick precision; SQLite's           *)
(* CURRENT_TIMESTAMP reads it truncated to the whole second.               *)
(* The column updated_at is written by every mutation and read by no       *)
(* decision of the program; it is left out of the row.                     *)
(*                                                                         *)
(* A write waits for the database's write lock; every read and write may   *)
(* instead fail (the `fault` input of an action), which the code logs.     *)
(* Spec follows every worker and job id through the claim protocol under   *)
(* the seeded configuration; SpecJob follows one job through enqueue,      *)
(* failure, backoff, DLQ and retry with the backoff base set at will;      *)
(* SpecConfig follows one job and one worker under every setting of both   *)
(* config keys; SpecWorker follows start_worker from its first statement   *)
(* to its last, with the stop file and the loop's except branch, and       *)
(* SpecWorkerFair adds that every worker process keeps being scheduled.    *)
(* SpecStore follows the config table through `config set` of standard and *)
(* non-standard keys; SpecCrash adds a worker process killed inside its     *)
(* loop; SpecProgress follows one worker that keeps running, with no stop  *)
(* file, kill or storage fault, while the clock advances.                  *)
(*                                                                         *)
(* utcnow() + timedelta raises OverflowError past datetime.max, which is   *)
(* DateTimeMax on the model's clock.  The history variable runs counts     *)
(* the executions of each job; no decision of the program reads it.        *)
(***************************************************************************)
EXTENDS Integers, FiniteSets, Sequences, TLC

\* ---------------------------------------------------------------- bounds
MaxTime == 5
MaxTimeClaim == 4
MaxRetriesArg == 2
TicksPerSecond == 2
\* datetime.max, the last instant a datetime can hold, on the model's clock
DateTimeMax == 100

\* ------------------------------------------------------------ vocabulary
Workers == {"w1", "w2"}
Ids == {"j1", "j2"}
\* an id the operator may pass to `dlq retry` that is never enqueued
MissingId == "j9"
\* the job whose whole life is followed
RetryId == "j1"
Commands == {"exit 1"}
ConfigKeys == {"max_retries", "backoff_base"}
\* a key `config set` warns about ("not a standard config key") and stores
OtherKey == "timeout"
\* values the operator sets; "x" is a non-numeric value
ConfigValues == {"0", "2", "x"}
\* execute_job: 0 success, 1 a non-zero exit, -1 timeout, -2 exception
ReturnCodes == {0, 1, -1, -2}
NoWorker == "none"
\* the one worker running where the configuration is followed
ConfigWorker == "w1"

VARIABLES
    jobs,    \* the jobs table: a function from the ids present to their rows
    config,  \* the config table: key -> value
    now,     \* the clock, in ticks
    dbLock,  \* the worker inside a BEGIN IMMEDIATE transaction, or NoWorker
    pc,      \* each worker's position in start_worker
    job,     \* each worker's local `job` (the row fetch_pending_job returned)
    ret,     \* what the step just taken returned to the operator's CLI call
             \* (insert_job, retry_dead_job); NoRet after any other step
    stopFile, \* STOP_FILE_PATH exists
    runs     \* history: for each job, how often execute_job has run its
             \* command since it was enqueued or last retried from the DLQ

vars == <<jobs, config, now, dbLock, pc, job, ret, stopFile, runs>>

\* `job = None` in start_worker
NoneJob ==
    [id |-> "None", command |-> "", state |-> "", attempts |-> 0,
     max_retries |-> 0, run_at |-> 0, created_at |-> 0]

NoRet ==
    [op |-> "none", id |-> "", cause |-> "none", value |-> FALSE]

\* ------------------------------------------------------------------ time
\* SQLite's CURRENT_TIMESTAMP: the clock truncated to the second
CurrentTimestamp(t) ==
    (t \div TicksPerSecond) * TicksPerSecond

\* datetime.datetime.utcnow(): the clock at full precision
UtcNow(t) ==
    t

\* datetime.timedelta(seconds=s), in ticks
TimeDelta(s) ==
    s * TicksPerSecond

\* ---------------------------------------------------------------- config
\* int(base_str): the strings that parse, and their values; None (a failed
\* read) and "x" raise
IntDomain == {"0", "1", "2", "3", "9"}

IntOf(s) ==
    CASE s = "0" -> 0
      [] s = "1" -> 1
      [] s = "2" -> 2
      [] s = "3" -> 3
      [] s = "9" -> 9

ConfigNone == "None"

\* get_config_value: the stored value, or None when the key has no row or
\* the read fails
GetConfigValue(cfg, key, fault) ==
    IF fault \/ key \notin DOMAIN cfg THEN ConfigNone ELSE cfg[key]

\* try: backoff_base = int(get_config_value('backoff_base')) except: 2
BackoffBase(cfg, fault) ==
    LET base_str == GetConfigValue(cfg, "backoff_base", fault)
    IN  IF base_str \in IntDomain THEN IntOf(base_str) ELSE 2

RECURSIVE Pow(_, _)
\* math.pow(b, e) for integers b, e >= 0
Pow(b, e) ==
    IF e = 0 THEN 1 ELSE b * Pow(b, e - 1)


\* ------------------------------------------------------------- the store
\* initialize_database: both tables empty but for the two seeded config keys
InitConfig ==
    [k \in ConfigKeys |-> IF k = "max_retries" THEN "3" ELSE "2"]

\* enqueue: --max-retries when given (opt = <<m>>), else int(config value),
\* else 3 when the value cannot be read or parsed
EnqueueMaxRetries(cfg, opt, fault) ==
    IF Len(opt) = 1
    THEN opt[1]
    ELSE LET config_retries == GetConfigValue(cfg, "max_retries", fault)
         IN  IF config_retries \in IntDomain THEN IntOf(config_retries) ELSE 3

\* the INSERT as a mutation that schedules the first run a second later
NewRowRunsLater(job_id, command, max_retries, t) ==
    [id |-> job_id, command |-> command, state |-> "pending", attempts |-> 0,
     max_retries |-> max_retries, run_at |-> CurrentTimestamp(t) + TimeDelta(1),
     created_at |-> CurrentTimestamp(t)]

\* the row INSERT INTO jobs ... VALUES (?, ?, ?, 'pending', CURRENT_TIMESTAMP, ...)
\* creates; attempts takes the column default 0
NewRow(job_id, command, max_retries, t) ==
    [id |-> job_id, command |-> command, state |-> "pending", attempts |-> 0,
     max_retries |-> max_retries, run_at |-> CurrentTimestamp(t),
     created_at |-> CurrentTimestamp(t)]

\* insert_job's return value: True after the commit, False from either
\* except branch (IntegrityError, sqlite3.Error)
InsertJobReturn(cause) ==
    cause = "ok"

\* insert_job as a mutation that replaces an existing row (INSERT OR
\* REPLACE)
InsertCauseReplace(js, job_id, fault) ==
    IF fault THEN "storage" ELSE "ok"

\* what happens inside insert_job: the id exists (IntegrityError), the
\* store fails (sqlite3.Error), or the row is written
InsertCause(js, job_id, fault) ==
    IF fault THEN "storage"
    ELSE IF job_id \in DOMAIN js THEN "duplicate"
    ELSE "ok"

\* enqueue + insert_job
InsertJob(job_id, command, opt, cfgFault, fault) ==
    LET cause == InsertCause(jobs, job_id, fault)
        mr == EnqueueMaxRetries(config, opt, cfgFault)
    IN  /\ fault \/ dbLock = NoWorker
        /\ jobs' = IF cause = "ok"
                   THEN [i \in DOMAIN jobs \cup {job_id} |->
                           IF i = job_id THEN NewRow(job_id, command, mr, now)
                           ELSE jobs[i]]
                   ELSE jobs
        /\ runs' = IF cause = "ok"
                   THEN [i \in DOMAIN jobs \cup {job_id} |->
                           IF i = job_id THEN 0 ELSE runs[i]]
                   ELSE runs
        /\ ret' = [op |-> "insert", id |-> job_id, cause |-> cause,
                   value |-> InsertJobReturn(cause)]
        /\ UNCHANGED <<config, now, dbLock, pc, job, stopFile>>

\* the WHERE clause as a mutation that also takes finished jobs
EligibleWithCompleted(js, t) ==
    {i \in DOMAIN js : /\ js[i].state \in {"pending", "completed"}
                       /\ js[i].run_at <= CurrentTimestamp(t)}

\* the WHERE clause as a mutation that also takes jobs of the DLQ
EligibleWithDead(js, t) ==
    {i \in DOMAIN js : /\ js[i].state \in {"pending", "dead"}
                       /\ js[i].run_at <= CurrentTimestamp(t)}

\* the WHERE clause as a mutation without the run_at test
EligibleAnyRunAt(js, t) ==
    {i \in DOMAIN js : js[i].state = "pending"}

\* WHERE state = 'pending' AND run_at <= CURRENT_TIMESTAMP
Eligible(js, t) ==
    {i \in DOMAIN js : js[i].state = "pending" /\ js[i].run_at <= CurrentTimestamp(t)}

\* the ORDER BY as a mutation that sorts newest first (DESC)
NewestEligible(js, t) ==
    {i \in Eligible(js, t) :
        \A k \in Eligible(js, t) : js[i].created_at >= js[k].created_at}

\* ORDER BY created_at ASC LIMIT 1: the rows the SELECT may return (rows of
\* equal created_at come in an order SQL leaves open)
OldestEligible(js, t) ==
    {i \in Eligible(js, t) :
        \A k \in Eligible(js, t) : js[i].created_at <= js[k].created_at}

\* BEGIN IMMEDIATE as a mutation that takes no lock (a deferred BEGIN)
BeginDeferred(w, fault) ==
    /\ pc' = [pc EXCEPT ![w] = IF fault THEN "sleep" ELSE "select"]
    /\ UNCHANGED dbLock

\* conn.execute("BEGIN IMMEDIATE;"): takes the write lock now, or fails
\* ("database is locked", or any other sqlite3.Error) and returns None
BeginImmediate(w, fault) ==
    IF fault
    THEN /\ pc' = [pc EXCEPT ![w] = "sleep"]
         /\ UNCHANGED dbLock
    ELSE /\ dbLock = NoWorker
         /\ dbLock' = w
         /\ pc' = [pc EXCEPT ![w] = "select"]

\* the top of the loop found no stop file; fetch_pending_job, up to
\* BEGIN IMMEDIATE
FetchBegin(w, fault) ==
    /\ pc[w] = "poll"
    /\ ~stopFile
    /\ BeginImmediate(w, fault)
    /\ job' = [job EXCEPT ![w] = NoneJob]
    /\ ret' = NoRet
    /\ UNCHANGED <<jobs, config, now, stopFile, runs>>

\* fetch_pending_job: the SELECT; no row commits the empty transaction and
\* returns None, an error rolls back and returns None
FetchSelect(w, fault) ==
    /\ pc[w] = "select"
    /\ IF fault \/ Eligible(jobs, now) = {}
       THEN /\ pc' = [pc EXCEPT ![w] = "sleep"]
            /\ dbLock' = IF dbLock = w THEN NoWorker ELSE dbLock
            /\ UNCHANGED job
       ELSE /\ \E i \in OldestEligible(jobs, now) :
                 job' = [job EXCEPT ![w] = jobs[i]]
            /\ pc' = [pc EXCEPT ![w] = "mark"]
            /\ UNCHANGED dbLock
    /\ ret' = NoRet
    /\ UNCHANGED <<jobs, config, now, stopFile, runs>>

\* the UPDATE of fetch_pending_job as a mutation that forgets the row
LockRowNoUpdate(js, job_id) ==
    js

\* UPDATE jobs SET state = 'processing' WHERE id = ?
LockRow(js, job_id) ==
    [i \in DOMAIN js |->
        IF i = job_id THEN [js[i] EXCEPT !.state = "processing"] ELSE js[i]]

\* the end of fetch_pending_job as a mutation without the rollback: the
\* UPDATE stays when the commit fails
FetchMarkNoRollback(w, fault) ==
    /\ pc[w] = "mark"
    /\ jobs' = LockRow(jobs, job[w].id)
    /\ IF fault
       THEN /\ pc' = [pc EXCEPT ![w] = "sleep"]
            /\ job' = [job EXCEPT ![w] = NoneJob]
       ELSE /\ pc' = [pc EXCEPT ![w] = "exec"]
            /\ UNCHANGED job
    /\ dbLock' = IF dbLock = w THEN NoWorker ELSE dbLock
    /\ ret' = NoRet
    /\ UNCHANGED <<config, now, stopFile, runs>>

\* fetch_pending_job: the UPDATE that locks the row, the
\* COMMIT, and `return job` (the row as it was selected); an error rolls
\* back and returns None
FetchMark(w, fault) ==
    /\ pc[w] = "mark"
    /\ IF fault
       THEN /\ pc' = [pc EXCEPT ![w] = "sleep"]
            /\ job' = [job EXCEPT ![w] = NoneJob]
            /\ UNCHANGED jobs
       ELSE /\ jobs' = LockRow(jobs, job[w].id)
            /\ pc' = [pc EXCEPT ![w] = "exec"]
            /\ UNCHANGED job
    /\ dbLock' = IF dbLock = w THEN NoWorker ELSE dbLock
    /\ ret' = NoRet
    /\ UNCHANGED <<config, now, stopFile, runs>>

\* update_job_status as a mutation that counts the run as an attempt
UpdateJobStatusCounting(js, job_id, new_state) ==
    [i \in DOMAIN js |->
        IF i = job_id
        THEN [js[i] EXCEPT !.state = new_state, !.attempts = js[i].attempts + 1]
        ELSE js[i]]

\* update_job_status: UPDATE jobs SET state = ? WHERE id = ?
UpdateJobStatus(js, job_id, new_state) ==
    [i \in DOMAIN js |->
        IF i = job_id THEN [js[i] EXCEPT !.state = new_state] ELSE js[i]]

\* the DLQ test as a mutation that reads max_retries from the config table
\* at the time of the failure instead of from the job
FailureStateFromConfig(j) ==
    IF j.attempts + 1 >= EnqueueMaxRetries(config, <<>>, FALSE)
    THEN "dead" ELSE "pending"

\* the DLQ test as a mutation with > for >=
FailureStateStrict(j) ==
    IF j.attempts + 1 > j.max_retries THEN "dead" ELSE "pending"

\* update_job_on_failure: new_attempts >= max_retries moves the job to the
\* DLQ, anything else retries it
FailureState(j) ==
    IF j.attempts + 1 >= j.max_retries THEN "dead" ELSE "pending"

\* the delay as a mutation that raises the base to the attempts before
\* the increment
NextRunAtOldAttempts(backoff_base, new_attempts, t) ==
    UtcNow(t) + TimeDelta(Pow(backoff_base, new_attempts - 1))

\* delay_seconds = math.pow(backoff_base, new_attempts);
\* next_run_at = utcnow() + timedelta(seconds=delay_seconds)
NextRunAt(backoff_base, new_attempts, t) ==
    UtcNow(t) + TimeDelta(Pow(backoff_base, new_attempts))

\* utcnow() + timedelta(..) raises OverflowError ("date value out of
\* range") when the sum lies past datetime.max
DateOutOfRange(run_at) ==
    run_at > DateTimeMax

\* update_job_on_failure as a mutation whose retry branch counts the
\* failure twice
UpdateJobOnFailureDoubleCount(js, j, cfg, cfgFault, t) ==
    LET new_attempts == j.attempts + 1
        next_run_at == NextRunAt(BackoffBase(cfg, cfgFault), new_attempts, t)
    IN  [i \in DOMAIN js |->
          IF i # j.id THEN js[i]
          ELSE IF FailureState(j) = "dead"
          THEN [js[i] EXCEPT !.state = "dead", !.attempts = new_attempts]
          ELSE IF DateOutOfRange(next_run_at)
          THEN js[i]
          ELSE [js[i] EXCEPT !.state = "pending", !.attempts = new_attempts + 1,
                             !.run_at = next_run_at]]

\* update_job_on_failure: the row after the UPDATE (the dead branch leaves
\* run_at alone); j is the worker's copy of the row.  When next_run_at
\* cannot be computed the except branch logs, returns "error" and no
\* UPDATE is made.
UpdateJobOnFailure(js, j, cfg, cfgFault, t) ==
    LET new_attempts == j.attempts + 1
        next_run_at == NextRunAt(BackoffBase(cfg, cfgFault), new_attempts, t)
    IN  [i \in DOMAIN js |->
          IF i # j.id THEN js[i]
          ELSE IF FailureState(j) = "dead"
          THEN [js[i] EXCEPT !.state = "dead", !.attempts = new_attempts]
          ELSE IF DateOutOfRange(next_run_at)
          THEN js[i]
          ELSE [js[i] EXCEPT !.state = "pending", !.attempts = new_attempts,
                             !.run_at = next_run_at]]

\* process_job: execute_job's return code, then update_job_status
\* (.., 'completed') or update_job_on_failure.  fault: the update raises (a
\* sqlite3.Error, or in update_job_on_failure any exception, such as a delay
\* past the datetime range); it is logged, "error" is returned and the row
\* keeps its state.  The loop then starts over.
ProcessJob(w, rc, cfgFault, fault) ==
    /\ pc[w] = "exec"
    /\ fault \/ dbLock = NoWorker
    /\ jobs' = IF fault THEN jobs
               ELSE IF rc = 0 THEN UpdateJobStatus(jobs, job[w].id, "completed")
               ELSE UpdateJobOnFailure(jobs, job[w], config, cfgFault, now)
    /\ runs' = [runs EXCEPT ![job[w].id] = @ + 1]
    /\ pc' = [pc EXCEPT ![w] = "poll"]
    /\ job' = [job EXCEPT ![w] = NoneJob]
    /\ ret' = NoRet
    /\ UNCHANGED <<config, now, dbLock, stopFile>>

\* time.sleep(1) is over: back to the top of the loop
Wake(w) ==
    /\ pc[w] = "sleep"
    /\ pc' = [pc EXCEPT ![w] = "poll"]
    /\ ret' = NoRet
    /\ UNCHANGED <<jobs, config, now, dbLock, job, stopFile, runs>>

\* start_worker's except branch.  The only exception that leaves the try
\* block after a job was fetched is one update_job_status(.., 'completed')
\* does not catch (anything but sqlite3.Error): execute_job and
\* update_job_on_failure catch every Exception themselves.  The outcome is
\* not written; `if job:` the worker writes 'failed' instead (fault: that
\* write fails and is logged), then time.sleep(5).
StartWorkerExcept(w, fault) ==
    /\ pc[w] = "exec"
    /\ fault \/ dbLock = NoWorker
    /\ jobs' = IF fault THEN jobs ELSE UpdateJobStatus(jobs, job[w].id, "failed")
    /\ runs' = [runs EXCEPT ![job[w].id] = @ + 1]
    /\ pc' = [pc EXCEPT ![w] = "sleep"]
    /\ job' = [job EXCEPT ![w] = NoneJob]
    /\ ret' = NoRet
    /\ UNCHANGED <<config, now, dbLock, stopFile>>

\* start_worker before the loop: STOP_FILE_PATH.exists()
StartWorker(w) ==
    /\ pc[w] = "start"
    /\ pc' = [pc EXCEPT ![w] = IF stopFile THEN "unlink" ELSE "poll"]
    /\ ret' = NoRet
    /\ UNCHANGED <<jobs, config, now, dbLock, job, stopFile, runs>>

\* the top of the loop: STOP_FILE_PATH.exists() is true
StopFileDetected(w) ==
    /\ pc[w] = "poll"
    /\ stopFile
    /\ pc' = [pc EXCEPT ![w] = "unlink"]
    /\ ret' = NoRet
    /\ UNCHANGED <<jobs, config, now, dbLock, job, stopFile, runs>>

\* STOP_FILE_PATH.unlink(), then `return` or `break`: the worker is done.
\* When the file is gone by now unlink raises FileNotFoundError, which no
\* handler catches (the check stands outside the try block): the process
\* ends with a traceback.
Unlink(w) ==
    IF stopFile
    THEN /\ stopFile' = FALSE
         /\ pc' = [pc EXCEPT ![w] = "exited"]
    ELSE /\ pc' = [pc EXCEPT ![w] = "crashed"]
         /\ UNCHANGED stopFile

\* the step from the stop check to the end of start_worker
StopFileUnlink(w) ==
    /\ pc[w] = "unlink"
    /\ Unlink(w)
    /\ ret' = NoRet
    /\ UNCHANGED <<jobs, config, now, dbLock, job, runs>>

\* Worker w's process is killed from outside (SIGKILL, power loss) at any
\* statement of the loop: nothing more is written, and SQLite drops the
\* transaction the process had open together with its lock.  Nothing in
\* the program watches for it.
Kill(w) ==
    /\ pc[w] \in {"poll", "select", "mark", "exec", "sleep"}
    /\ pc' = [pc EXCEPT ![w] = "killed"]
    /\ dbLock' = IF dbLock = w THEN NoWorker ELSE dbLock
    /\ ret' = NoRet
    /\ UNCHANGED <<jobs, config, now, job, stopFile, runs>>

\* queuectl worker stop: touch the stop file unless it exists
WorkerStop ==
    /\ stopFile' = TRUE
    /\ ret' = NoRet
    /\ UNCHANGED <<jobs, config, now, dbLock, pc, job, runs>>

\* retry_dead_job's return value: True after the UPDATE changed a row,
\* False when rowcount = 0 and False from the except branch
RetryDeadJobReturn(cause) ==
    cause = "ok"

\* the WHERE clause of retry_dead_job as a mutation that also takes jobs
\* stuck in processing
RetryMatchesDeadOrProcessing(js, job_id) ==
    job_id \in DOMAIN js /\ js[job_id].state \in {"dead", "processing"}

\* the WHERE clause of retry_dead_job as a mutation without state = 'dead'
RetryMatchesAnyState(js, job_id) ==
    job_id \in DOMAIN js

\* WHERE id = ? AND state = 'dead': the UPDATE finds a row (rowcount = 1)
RetryMatches(js, job_id) ==
    job_id \in DOMAIN js /\ js[job_id].state = "dead"

\* what happens inside retry_dead_job: the store fails, the UPDATE changes
\* the row, or rowcount = 0
RetryCause(js, job_id, fault) ==
    IF fault THEN "storage"
    ELSE IF RetryMatches(js, job_id) THEN "ok"
    ELSE "not_found"

\* the UPDATE of retry_dead_job as a mutation that keeps attempts
RetryUpdateKeepAttempts(js, job_id, t) ==
    [i \in DOMAIN js |->
        IF i = job_id /\ RetryMatches(js, job_id)
        THEN [js[i] EXCEPT !.state = "pending", !.run_at = CurrentTimestamp(t)]
        ELSE js[i]]

\* UPDATE jobs SET state = 'pending', attempts = 0, run_at = CURRENT_TIMESTAMP
\* WHERE id = ? AND state = 'dead'
RetryUpdate(js, job_id, t) ==
    [i \in DOMAIN js |->
        IF i = job_id /\ RetryMatches(js, job_id)
        THEN [js[i] EXCEPT !.state = "pending", !.attempts = 0,
                           !.run_at = CurrentTimestamp(t)]
        ELSE js[i]]

\* dlq retry + retry_dead_job
RetryDeadJob(job_id, fault) ==
    LET cause == RetryCause(jobs, job_id, fault)
    IN  /\ fault \/ dbLock = NoWorker
        /\ jobs' = IF fault THEN jobs ELSE RetryUpdate(jobs, job_id, now)
        /\ runs' = IF cause = "ok" THEN [runs EXCEPT ![job_id] = 0] ELSE runs
        /\ ret' = [op |-> "dlq_retry", id |-> job_id, cause |-> cause,
                   value |-> RetryDeadJobReturn(cause)]
        /\ UNCHANGED <<config, now, dbLock, pc, job, stopFile>>

\* the upsert as a mutation that keeps the row of a key already present
\* (INSERT OR IGNORE)
ConfigInsertOrIgnore(cfg, key, value) ==
    [k \in DOMAIN cfg \cup {key} |-> IF k \in DOMAIN cfg THEN cfg[k] ELSE value]

\* INSERT OR REPLACE INTO config (key, value) VALUES (?, ?)
ConfigInsertOrReplace(cfg, key, value) ==
    [k \in DOMAIN cfg \cup {key} |-> IF k = key THEN value ELSE cfg[k]]

\* set_config_value
SetConfigValue(key, value, fault) ==
    /\ fault \/ dbLock = NoWorker
    /\ config' = IF fault THEN config ELSE ConfigInsertOrReplace(config, key, value)
    /\ ret' = NoRet
    /\ UNCHANGED <<jobs, now, dbLock, pc, job, stopFile, runs>>

\* the clock advances, up to the horizon explored
Tick(horizon) ==
    /\ now < horizon
    /\ now' = now + 1
    /\ ret' = NoRet
    /\ UNCHANGED <<jobs, config, dbLock, pc, job, stopFile, runs>>

\* the clock runs on past the horizon while a pending job waits for its
\* run_at
TickUntilDue ==
    /\ \E i \in DOMAIN jobs :
          jobs[i].state = "pending" /\ jobs[i].run_at > CurrentTimestamp(now)
    /\ now' = now + 1
    /\ ret' = NoRet
    /\ UNCHANGED <<jobs, config, dbLock, pc, job, stopFile, runs>>

Init ==
    /\ jobs = <<>>
    /\ config = InitConfig
    /\ now = 0
    /\ dbLock = NoWorker
    /\ pc = [w \in Workers |-> "poll"]
    /\ job = [w \in Workers |-> NoneJob]
    /\ ret = NoRet
    /\ stopFile = FALSE
    /\ runs = <<>>

\* --max-retries: absent (<<>>) or a number
MaxRetriesOpts ==
    {<<>>} \cup {<<m>> : m \in 0..MaxRetriesArg}

\* The claim protocol: every worker and every job id, the operator
\* enqueueing and retrying dead jobs, the configuration as seeded.
Next ==
    \/ \E i \in Ids, c \in Commands, o \in MaxRetriesOpts :
          InsertJob(i, c, o, FALSE, FALSE)
    \/ \E w \in Workers, f \in BOOLEAN : FetchBegin(w, f)
    \/ \E w \in Workers, f \in BOOLEAN : FetchSelect(w, f)
    \/ \E w \in Workers, f \in BOOLEAN : FetchMark(w, f)
    \/ \E w \in Workers, rc \in ReturnCodes, f \in BOOLEAN :
          ProcessJob(w, rc, FALSE, f)
    \/ \E w \in Workers : Wake(w)
    \/ \E i \in Ids : RetryDeadJob(i, FALSE)
    \/ Tick(MaxTimeClaim)

Spec == Init /\ [][Next]_vars

\* One job's life: every worker, the operator enqueueing it and retrying it
\* (or an id never enqueued), the backoff base set to any value, every read
\* and write free to fail, time running past the backoff.
NextJob ==
    \/ \E c \in Commands, o \in MaxRetriesOpts, cf \in BOOLEAN, f \in BOOLEAN :
          InsertJob(RetryId, c, o, cf, f)
    \/ \E w \in Workers, f \in BOOLEAN : FetchBegin(w, f)
    \/ \E w \in Workers, f \in BOOLEAN : FetchSelect(w, f)
    \/ \E w \in Workers, f \in BOOLEAN : FetchMark(w, f)
    \/ \E w \in Workers, rc \in ReturnCodes, cf \in BOOLEAN, f \in BOOLEAN :
          ProcessJob(w, rc, cf, f)
    \/ \E w \in Workers : Wake(w)
    \/ \E i \in {RetryId, MissingId}, f \in BOOLEAN : RetryDeadJob(i, f)
    \/ \E v \in ConfigValues, f \in BOOLEAN : SetConfigValue("backoff_base", v, f)
    \/ Tick(MaxTime)

SpecJob == Init /\ [][NextJob]_vars

\* The configuration against one job: one worker, the operator enqueueing
\* the job with either command, setting either config key to any value at
\* any moment and retrying the job from the DLQ, config reads free to fail.
NextConfig ==
    \/ \E c \in Commands \cup {"exit 0"}, o \in MaxRetriesOpts, cf \in BOOLEAN :
          InsertJob(RetryId, c, o, cf, FALSE)
    \/ FetchBegin(ConfigWorker, FALSE)
    \/ FetchSelect(ConfigWorker, FALSE)
    \/ FetchMark(ConfigWorker, FALSE)
    \/ \E rc \in ReturnCodes, cf \in BOOLEAN : ProcessJob(ConfigWorker, rc, cf, FALSE)
    \/ Wake(ConfigWorker)
    \/ RetryDeadJob(RetryId, FALSE)
    \/ \E k \in ConfigKeys, v \in ConfigValues : SetConfigValue(k, v, FALSE)
    \/ Tick(MaxTime)

SpecConfig == Init /\ [][NextConfig]_vars

\* The config table next to the jobs table: the operator setting any key,
\* standard or not, to any value and enqueueing the job, every read and
\* write free to fail.
NextStore ==
    \/ \E c \in Commands, o \in MaxRetriesOpts, cf \in BOOLEAN, f \in BOOLEAN :
          InsertJob(RetryId, c, o, cf, f)
    \/ \E k \in ConfigKeys \cup {OtherKey}, v \in ConfigValues, f \in BOOLEAN :
          SetConfigValue(k, v, f)
    \/ Tick(MaxTimeClaim)

SpecStore == Init /\ [][NextStore]_vars

\* Workers that die: every worker and job id, the operator enqueueing,
\* retrying and setting max_retries to 0, outcome writes free to fail, the
\* loop's except branch, and any worker killed at any statement.
NextCrash ==
    \/ \E i \in Ids, c \in Commands : InsertJob(i, c, <<>>, FALSE, FALSE)
    \/ \E w \in Workers : FetchBegin(w, FALSE)
    \/ \E w \in Workers : FetchSelect(w, FALSE)
    \/ \E w \in Workers : FetchMark(w, FALSE)
    \/ \E w \in Workers, rc \in ReturnCodes, f \in BOOLEAN :
          ProcessJob(w, rc, FALSE, f)
    \/ \E w \in Workers : StartWorkerExcept(w, FALSE)
    \/ \E w \in Workers : Wake(w)
    \/ \E w \in Workers : Kill(w)
    \/ \E i \in Ids : RetryDeadJob(i, FALSE)
    \/ SetConfigValue("max_retries", "0", FALSE)
    \/ Tick(MaxTimeClaim)

SpecCrash == Init /\ [][NextCrash]_vars

\* the backoff bases the operator sets where progress is followed: the
\* seeded one and a large one
ProgressBases == {"2", "9"}

\* a statement of worker w's loop that meets no storage error
ProgressStep(w) ==
    \/ FetchBegin(w, FALSE)
    \/ FetchSelect(w, FALSE)
    \/ FetchMark(w, FALSE)
    \/ \E rc \in ReturnCodes : ProcessJob(w, rc, FALSE, FALSE)
    \/ Wake(w)

\* time passes
ClockStep ==
    Tick(MaxTime) \/ TickUntilDue

\* Progress: one worker that is never stopped or killed and meets no
\* storage error, one job, the operator enqueueing it, retrying it from the
\* DLQ (within the horizon) and setting the backoff base.
NextProgress ==
    \/ \E c \in Commands, o \in MaxRetriesOpts : InsertJob(RetryId, c, o, FALSE, FALSE)
    \/ FetchBegin(ConfigWorker, FALSE)
    \/ FetchSelect(ConfigWorker, FALSE)
    \/ FetchMark(ConfigWorker, FALSE)
    \/ \E rc \in ReturnCodes : ProcessJob(ConfigWorker, rc, FALSE, FALSE)
    \/ Wake(ConfigWorker)
    \/ (now < MaxTime /\ RetryDeadJob(RetryId, FALSE))
    \/ \E v \in ProgressBases : SetConfigValue("backoff_base", v, FALSE)
    \/ Tick(MaxTime)
    \/ TickUntilDue

\* The worker is scheduled again and again, every command ends (by exit or
\* by execute_job's timeout), every sleep ends, and time passes: the clock
\* stops only past the horizon with no pending job waiting for it.
SpecProgress ==
    /\ Init
    /\ [][NextProgress]_vars
    /\ WF_vars(ProgressStep(ConfigWorker))
    /\ WF_vars(ClockStep)

\* `queuectl worker start` has removed any stop file and spawned the
\* workers; none has run its first statement yet
InitWorker ==
    /\ jobs = <<>>
    /\ config = InitConfig
    /\ now = 0
    /\ dbLock = NoWorker
    /\ pc = [w \in Workers |-> "start"]
    /\ job = [w \in Workers |-> NoneJob]
    /\ ret = NoRet
    /\ stopFile = FALSE
    /\ runs = <<>>

\* The whole of start_worker: every worker from its first statement to its
\* last over one job, the operator enqueueing it, retrying it and stopping
\* the workers at any moment, reads and writes free to fail, and the
\* loop's except branch.
NextWorker ==
    \/ \E c \in Commands, o \in MaxRetriesOpts : InsertJob(RetryId, c, o, FALSE, FALSE)
    \/ \E w \in Workers : StartWorker(w)
    \/ \E w \in Workers : StopFileDetected(w)
    \/ \E w \in Workers : StopFileUnlink(w)
    \/ \E w \in Workers, f \in BOOLEAN : FetchBegin(w, f)
    \/ \E w \in Workers, f \in BOOLEAN : FetchSelect(w, f)
    \/ \E w \in Workers, f \in BOOLEAN : FetchMark(w, f)
    \/ \E w \in Workers, rc \in ReturnCodes, f \in BOOLEAN :
          ProcessJob(w, rc, FALSE, f)
    \/ \E w \in Workers, f \in BOOLEAN : StartWorkerExcept(w, f)
    \/ \E w \in Workers : Wake(w)
    \/ RetryDeadJob(RetryId, FALSE)
    \/ WorkerStop
    \/ Tick(MaxTimeClaim)

SpecWorker == InitWorker /\ [][NextWorker]_vars

\* any statement of worker w's process
WorkerStep(w) ==
    \/ StartWorker(w)
    \/ StopFileDetected(w)
    \/ StopFileUnlink(w)
    \/ \E f \in BOOLEAN : FetchBegin(w, f)
    \/ \E f \in BOOLEAN : FetchSelect(w, f)
    \/ \E f \in BOOLEAN : FetchMark(w, f)
    \/ \E rc \in ReturnCodes, f \in BOOLEAN : ProcessJob(w, rc, FALSE, f)
    \/ \E f \in BOOLEAN : StartWorkerExcept(w, f)
    \/ Wake(w)

\* The same steps, with every worker process scheduled again and again
\* (each runs in a process of its own, every command ends by exit or by
\* execute_job's timeout, and every sleep ends); the operator and the clock
\* are under no obligation.
SpecWorkerFair ==
    SpecWorker /\ \A w \in Workers : WF_vars(WorkerStep(w))


\* ================================================================ claims

\* worker w has been handed job i by fetch_pending_job and has not yet
\* reported its outcome
Holds(w, i) ==
    pc[w] = "exec" /\ job[w].id = i

\* C1: in every reachable state each job is held by at most one worker (no
\* job is handed to a second worker while the first has not reported), and a
\* held job is in state processing.
C1_SingleOwner ==
    \A i \in DOMAIN jobs :
        /\ Cardinality({w \in Workers : Holds(w, i)}) <= 1
        /\ (\E w \in Workers : Holds(w, i)) => jobs[i].state = "processing"

\* C1 witness: two workers hold two different jobs at the same time.
C1_Witness ==
    \E w1, w2 \in Workers : \E i, k \in DOMAIN jobs :
        w1 # w2 /\ i # k /\ Holds(w1, i) /\ Holds(w2, k)

\* C2: a call of fetch_pending_job that returns job i leaves i in state
\* processing and in no other worker's hands; when i was the only eligible
\* job no eligible job is left for a further poll; and a call that finds no
\* eligible job returns None.
C2_ExactlyOneClaims ==
    [][\A w \in Workers :
          /\ (pc[w] = "mark" /\ pc'[w] = "exec") =>
                LET i == job'[w].id
                IN  /\ jobs'[i].state = "processing"
                    /\ \A v \in Workers \ {w} : job'[v].id # i
                    /\ (Eligible(jobs, now) \subseteq {i}) => Eligible(jobs', now') = {}
          /\ (pc[w] = "select" /\ Eligible(jobs, now) = {}) =>
                (pc'[w] = "select" \/ (pc'[w] = "sleep" /\ job'[w] = NoneJob))
      ]_vars

\* C2 witness: of two workers that polled the one job of the store, one
\* holds it and the other was handed None; nothing is left to claim.
C2_Witness ==
    \E w1, w2 \in Workers :
        /\ w1 # w2
        /\ Cardinality(DOMAIN jobs) = 1
        /\ \E i \in DOMAIN jobs : Holds(w1, i) /\ jobs[i].state = "processing"
        /\ pc[w2] = "sleep" /\ job[w2] = NoneJob
        /\ Eligible(jobs, now) = {}

\* a step in which worker w reports a failure (rc # 0) of the job it holds
\* and the write succeeds
FailureStep(w, cf) ==
    \E rc \in ReturnCodes \ {0} : ProcessJob(w, rc, cf, FALSE)

\* C3 (as claimed): a failure moves the job to dead only when attempts + 1 >=
\* max_retries, every dead job has attempts >= max_retries, and any other
\* failure returns it to pending with run_at strictly later than the time
\* of the failure.
C3_DeadOnlyWhenExhausted ==
    [][\A w \in Workers, cf \in BOOLEAN :
          FailureStep(w, cf) =>
             LET i == job[w].id
             IN  /\ jobs'[i].state \in {"dead", "pending"}
                 /\ jobs'[i].state = "dead" =>
                       /\ jobs[i].attempts + 1 >= jobs[i].max_retries
                       /\ jobs'[i].attempts >= jobs'[i].max_retries
                 /\ jobs'[i].state = "pending" => jobs'[i].run_at > UtcNow(now)
      ]_vars

\* the backoff base the spec describes: the configured value, 2 when the key
\* cannot be read (cf) or is not a number
ConfiguredBase(cf) ==
    IF cf THEN 2
    ELSE CASE config["backoff_base"] = "0" -> 0
           [] config["backoff_base"] = "1" -> 1
           [] config["backoff_base"] = "2" -> 2
           [] config["backoff_base"] = "3" -> 3
           [] OTHER -> 2

\* what C4 promises of a failure step
RetriedWithBackoff(i, cf) ==
    /\ jobs'[i].state = "pending"
    /\ jobs'[i].attempts = jobs[i].attempts + 1
    /\ jobs'[i].run_at >=
          UtcNow(now) + TimeDelta(Pow(ConfiguredBase(cf), jobs[i].attempts + 1))

\* C4 (as claimed): every failure of a job with attempts = k < max_retries
\* yields pending, attempts = k + 1 and run_at >= now + base^(k+1) seconds.
C4_Original ==
    [][\A w \in Workers, cf \in BOOLEAN :
          (FailureStep(w, cf) /\ jobs[job[w].id].attempts < jobs[job[w].id].max_retries)
             => RetriedWithBackoff(job[w].id, cf)
      ]_vars

\* C4 (amended): every failure of a job with attempts = k and k + 1 <
\* max_retries yields pending, attempts = k + 1 and run_at >= now +
\* base^(k+1) seconds, base being the configured value or 2.
C4_RetryBackoff ==
    [][\A w \in Workers, cf \in BOOLEAN :
          (FailureStep(w, cf) /\ jobs[job[w].id].attempts + 1 < jobs[job[w].id].max_retries)
             => RetriedWithBackoff(job[w].id, cf)
      ]_vars

\* C4 witness: a job just failed for the second time (k = 1) and waits,
\* pending, base^2 seconds from now.
C4_Witness ==
    \E i \in DOMAIN jobs :
        /\ jobs[i].state = "pending"
        /\ jobs[i].attempts = 2
        /\ jobs[i].run_at = UtcNow(now) + TimeDelta(Pow(2, 2))

\* C5: every failure of a job with attempts = max_retries - 1 yields dead
\* with attempts = max_retries and leaves run_at as it was.
C5_LastFailureDead ==
    [][\A w \in Workers, cf \in BOOLEAN :
          (FailureStep(w, cf) /\ jobs[job[w].id].attempts = jobs[job[w].id].max_retries - 1)
             => LET i == job[w].id
                IN  /\ jobs'[i].state = "dead"
                    /\ jobs'[i].attempts = jobs'[i].max_retries
                    /\ jobs'[i].run_at = jobs[i].run_at
      ]_vars

\* C5 witness: a job enqueued with max_retries = 2 is dead after its second
\* failure, attempts = 2, run_at still the one its first failure set.
C5_Witness ==
    \E i \in DOMAIN jobs :
        /\ jobs[i].state = "dead"
        /\ jobs[i].max_retries = 2
        /\ jobs[i].attempts = 2
        /\ jobs[i].run_at > jobs[i].created_at

\* C6: no worker ever has in hand (selected, or claimed and executing) a job
\* whose run_at is later than the clock, and no processing job has one.
C6_NeverBeforeRunAt ==
    /\ \A w \in Workers : pc[w] \in {"mark", "exec"} => job[w].run_at <= UtcNow(now)
    /\ \A i \in DOMAIN jobs : jobs[i].state = "processing" => jobs[i].run_at <= UtcNow(now)

\* C6 witness: a worker executes a job it claimed after the backoff a
\* failure had set (attempts >= 1, run_at later than created_at), beside
\* another worker that polled and found nothing.
C6_Witness ==
    \E w, v \in Workers :
        /\ pc[w] = "exec"
        /\ job[w].attempts >= 1
        /\ job[w].run_at > job[w].created_at
        /\ v # w /\ pc[v] = "sleep"

\* C7: the row a SELECT of fetch_pending_job returns is eligible and no
\* eligible row has a smaller created_at; no step changes a row's
\* created_at or removes a row.
C7_OldestFirst ==
    [][/\ \A w \in Workers :
             (pc[w] = "select" /\ pc'[w] = "mark") =>
                 /\ job'[w].id \in Eligible(jobs, now)
                 /\ job'[w] = jobs[job'[w].id]
                 /\ \A k \in Eligible(jobs, now) : job'[w].created_at <= jobs[k].created_at
       /\ \A i \in DOMAIN jobs :
             i \in DOMAIN jobs' /\ jobs'[i].created_at = jobs[i].created_at
      ]_vars

\* C7 witness: a worker selected a job that had failed and waited out its
\* backoff (attempts >= 1, run_at later than created_at) ahead of an
\* eligible job enqueued after it, though that job's run_at is the earlier.
C7_Witness ==
    \E w \in Workers : \E k \in DOMAIN jobs :
        /\ pc[w] = "mark"
        /\ job[w].attempts >= 1
        /\ job[w].run_at > job[w].created_at
        /\ k # job[w].id
        /\ k \in Eligible(jobs, now)
        /\ jobs[k].created_at > job[w].created_at
        /\ jobs[k].run_at < job[w].run_at

\* C8: retry_dead_job on a dead job sets state = pending, attempts = 0 and
\* run_at = the store's current timestamp and returns True; called again
\* right after for the same id it returns False (not found) and changes no
\* row.
C8_RetryResets ==
    [][\A i \in Ids \cup {MissingId} :
          RetryDeadJob(i, FALSE) =>
             /\ (i \in DOMAIN jobs /\ jobs[i].state = "dead") =>
                   /\ jobs'[i].state = "pending"
                   /\ jobs'[i].attempts = 0
                   /\ jobs'[i].run_at = CurrentTimestamp(now)
                   /\ ret'.value = TRUE
             /\ (ret.op = "dlq_retry" /\ ret.id = i /\ ret.value = TRUE) =>
                   /\ ret'.value = FALSE
                   /\ ret'.cause = "not_found"
                   /\ jobs' = jobs
      ]_vars

\* C8 witness: the second retry_dead_job of a job just requeued (pending,
\* attempts 0, run_at later than created_at) returned not found.
C8_Witness ==
    /\ ret.op = "dlq_retry" /\ ret.cause = "not_found" /\ ret.value = FALSE
    /\ ret.id \in DOMAIN jobs
    /\ jobs[ret.id].state = "pending"
    /\ jobs[ret.id].attempts = 0
    /\ jobs[ret.id].run_at > jobs[ret.id].created_at

\* C9: retry_dead_job with an id that is missing or not dead returns False
\* and changes no row; a worker holding the job still holds it, in state
\* processing.
C9_RetryNonDeadNoop ==
    [][\A i \in Ids \cup {MissingId}, f \in BOOLEAN :
          (RetryDeadJob(i, f) /\ ~(i \in DOMAIN jobs /\ jobs[i].state = "dead")) =>
             /\ ret'.value = FALSE
             /\ jobs' = jobs
             /\ \A w \in Workers :
                   Holds(w, i) => (pc'[w] = "exec" /\ job'[w].id = i
                                   /\ jobs'[i].state = "processing")
      ]_vars

\* C9 witness: retry_dead_job was just refused for a job a worker is
\* processing.
C9_Witness ==
    /\ ret.op = "dlq_retry" /\ ret.value = FALSE /\ ret.cause = "not_found"
    /\ \E w \in Workers : Holds(w, ret.id) /\ jobs[ret.id].state = "processing"

\* C10 (as claimed): of two calls in a row of the same operation, one
\* failing on its precondition (duplicate id, id not in the DLQ) and the
\* other on the store, the caller is handed different results.
C10_Distinguishes ==
    [][(/\ ret.op = ret'.op
        /\ ret.op \in {"insert", "dlq_retry"}
        /\ {ret.cause, ret'.cause} \in {{"duplicate", "storage"}, {"not_found", "storage"}})
          => ret.value # ret'.value
      ]_vars

\* C11: an insert whose id is already in the store fails and leaves the
\* store as it was, whatever the state of the existing job: its command,
\* state, attempts, max_retries and run_at are unchanged, no row is added,
\* and every id keeps exactly one row (the row stored under its own id).
C11_DuplicateInsertRejected ==
    [][(ret'.op = "insert" /\ ret'.id \in DOMAIN jobs) =>
           /\ ret'.value = FALSE
           /\ jobs' = jobs
           /\ \A k \in DOMAIN jobs' : jobs'[k].id = k]_vars

\* C11 witness: a duplicate insert was just refused for a job that had
\* already failed its way into the DLQ.
C11_Witness ==
    /\ ret.op = "insert" /\ ret.cause = "duplicate"
    /\ jobs[ret.id].state = "dead"
    /\ jobs[ret.id].attempts > 0

\* worker w has job i in hand: selected inside its claim transaction, or
\* claimed and not yet reported
HasInHand(w, i) ==
    pc[w] \in {"mark", "exec"} /\ job[w].id = i

\* C12: completed is terminal.  Once a job is completed no step changes its
\* state or its attempts (nor any other column): not a claim, a failure
\* report, a DLQ retry, a duplicate insert or the worker's except branch;
\* and no worker has it in hand again.
C12_CompletedTerminal ==
    [][\A i \in DOMAIN jobs :
          jobs[i].state = "completed" =>
              /\ jobs'[i] = jobs[i]
              /\ \A w \in Workers : ~HasInHand(w, i)'
              /\ \A w \in Workers : ~HasInHand(w, i)]_vars

\* C12 witness: the job is completed, the operator has just tried to retry
\* it from the DLQ in vain, and a worker has polled and found nothing.
C12_Witness ==
    /\ RetryId \in DOMAIN jobs
    /\ jobs[RetryId].state = "completed"
    /\ ret.op = "dlq_retry" /\ ret.id = RetryId /\ ~ret.value
    /\ \E w \in Workers : pc[w] = "sleep"

\* C13: in every step a job's attempts stays the same, or goes up by exactly
\* one when the worker holding the job reports a failure (the job going to
\* pending or dead), or is set to 0 by a successful DLQ retry of that job.
\* A step that completes a job leaves its attempts unchanged, so a job that
\* succeeds on its first run is completed with attempts = 0.
C13_AttemptsStep ==
    [][\A i \in DOMAIN jobs :
          /\ \/ jobs'[i].attempts = jobs[i].attempts
             \/ /\ jobs'[i].attempts = jobs[i].attempts + 1
                /\ jobs'[i].state \in {"pending", "dead"}
                /\ \E w \in Workers : Holds(w, i) /\ pc'[w] = "poll"
             \/ /\ jobs'[i].attempts = 0
                /\ ret'.op = "dlq_retry" /\ ret'.id = i /\ ret'.value
          /\ (jobs'[i].state = "completed" /\ jobs[i].state # "completed")
                => jobs'[i].attempts = jobs[i].attempts]_vars

\* C13 witness: a job completed with attempts = 0 while the other worker
\* was polling.
C13_Witness ==
    /\ RetryId \in DOMAIN jobs
    /\ jobs[RetryId].state = "completed"
    /\ jobs[RetryId].attempts = 0
    /\ \E w \in Workers : pc[w] = "select"

\* C14: a dead job leaves that state only through a successful DLQ retry,
\* which also sets attempts = 0 and run_at to the current time and changes
\* nothing else; no other step changes any column of a dead job, and no
\* worker has a dead job in hand.
C14_DeadOnlyLeftByRetry ==
    [][\A i \in DOMAIN jobs :
          jobs[i].state = "dead" =>
              /\ jobs'[i] # jobs[i] =>
                    /\ ret'.op = "dlq_retry" /\ ret'.id = i /\ ret'.value
                    /\ jobs'[i] = [jobs[i] EXCEPT !.state = "pending",
                                                  !.attempts = 0,
                                                  !.run_at = CurrentTimestamp(now)]
              /\ \A w \in Workers : ~HasInHand(w, i)
              /\ \A w \in Workers : ~HasInHand(w, i)']_vars

\* C14 witness: a job that went to the DLQ with attempts > 0 has just been
\* retried and is pending with attempts = 0, while a worker is polling.
C14_Witness ==
    /\ ret.op = "dlq_retry" /\ ret.value
    /\ jobs[ret.id].state = "pending"
    /\ jobs[ret.id].attempts = 0
    /\ jobs[ret.id].run_at > jobs[ret.id].created_at
    /\ \E w \in Workers : pc[w] = "sleep"

\* worker w's process has not ended
Running(w) ==
    pc[w] \notin {"exited", "crashed"}

\* worker w is inside the `while True` loop
InLoop(w) ==
    pc[w] \in {"poll", "select", "mark", "exec", "sleep"}

\* C15: whenever the stop file exists while several workers are in their
\* poll loop, every worker's process eventually ends (workers being
\* scheduled fairly and commands terminating).
C15_StopReachesEveryWorker ==
    (stopFile /\ Cardinality({w \in Workers : InLoop(w)}) >= 2)
        ~> (\A w \in Workers : ~Running(w))

\* C16: clearing the stop file is safe under concurrency: of the workers
\* that saw it present, each either removes it or finds it removed and
\* ends normally; no worker's process ends in a fault.
C16_ClearIsSafe ==
    \A w \in Workers : pc[w] # "crashed"

\* C17: a worker acts on the stop file only between job cycles: on its way
\* out it has no claimed job in hand; and it leaves no job of its own in
\* state processing, so once every worker has shut down on the stop file
\* (each processing job having been claimed by one of them) no job is in
\* state processing.
C17_StopOnlyBetweenCycles ==
    /\ \A w \in Workers : pc[w] \in {"unlink", "exited"} => job[w] = NoneJob
    /\ (\A w \in Workers : pc[w] = "exited") =>
           \A i \in DOMAIN jobs : jobs[i].state # "processing"

\* the states a job row is meant to hold
JobStates == {"pending", "processing", "completed", "dead"}

\* C18: every job's stored state is pending, processing, completed or dead;
\* 'failed' is never stored.
C18_NoFailedState ==
    \A i \in DOMAIN jobs : jobs[i].state \in JobStates

\* C19: no step changes the id, command or max_retries of a stored job; a
\* failure sends the job to the DLQ exactly when its attempts reach the
\* max_retries it was enqueued with, whatever the config key says by then;
\* and a retry is scheduled with the backoff base the config holds at the
\* time of that failure (2 when it cannot be read or is not a number).
C19_InsertTimeFieldsFrozen ==
    [][/\ \A i \in DOMAIN jobs :
             /\ jobs'[i].id = jobs[i].id
             /\ jobs'[i].command = jobs[i].command
             /\ jobs'[i].max_retries = jobs[i].max_retries
       /\ \A w \in Workers, cf \in BOOLEAN :
             FailureStep(w, cf) =>
                LET i == job[w].id
                    k == jobs[i].attempts + 1
                IN  /\ jobs'[i].state = "dead" <=> k >= jobs[i].max_retries
                    /\ jobs'[i].state = "pending" =>
                          jobs'[i].run_at =
                             UtcNow(now) + TimeDelta(Pow(ConfiguredBase(cf), k))
      ]_vars

\* C19 witness: a job enqueued with max_retries = 3 went through three
\* failures before it died, although the config key max_retries says "0"
\* and the backoff base was changed from its seed.
C19_Witness ==
    \E i \in DOMAIN jobs :
        /\ jobs[i].state = "dead"
        /\ jobs[i].attempts = 3
        /\ jobs[i].max_retries = 3
        /\ config["max_retries"] = "0"
        /\ config["backoff_base"] = "0"

\* job i is as insert_job left it: pending and never run (a claim moves it
\* to processing, a failure counts an attempt)
AsInserted(i) ==
    jobs[i].state = "pending" /\ jobs[i].attempts = 0

\* what C20 promises of the UPDATE and return of a call of
\* fetch_pending_job that selected a job: the job is returned and is stored
\* as processing
ReturnedAsProcessing(w) ==
    FetchMark(w, FALSE) =>
        /\ pc'[w] = "exec"
        /\ job'[w].id = job[w].id
        /\ jobs'[job[w].id].state = "processing"

\* C20 (as claimed): a call of fetch_pending_job made while job i is as its
\* insert left it returns i, and i is stored as processing when the call
\* returns.
C20_Original ==
    [][\A w \in Workers :
          /\ \A i \in DOMAIN jobs :
                (AsInserted(i) /\ FetchSelect(w, FALSE)) =>
                    (pc'[w] = "mark" /\ job'[w].id = i)
          /\ ReturnedAsProcessing(w)
      ]_vars

\* C20 (amended): a call of fetch_pending_job that meets no storage error,
\* made while job i is as its insert left it and no other job is eligible,
\* returns i, and i is stored as processing when the call returns.
C20_InsertThenClaim ==
    [][\A w \in Workers :
          /\ \A i \in DOMAIN jobs :
                (/\ AsInserted(i)
                 /\ Eligible(jobs, now) \subseteq {i}
                 /\ FetchSelect(w, FALSE)) =>
                    (pc'[w] = "mark" /\ job'[w].id = i)
          /\ ReturnedAsProcessing(w)
      ]_vars

\* C20 witness: a worker was handed a job as its insert left it, the job is
\* stored as processing, and the store holds a second job that was not
\* eligible.
C20_Witness ==
    \E w \in Workers : \E i, k \in DOMAIN jobs :
        /\ i # k
        /\ Holds(w, i)
        /\ job[w].state = "pending" /\ job[w].attempts = 0
        /\ jobs[i].state = "processing"
        /\ jobs[k].state = "pending" /\ jobs[k].run_at > CurrentTimestamp(now)

\* C21: a set_config_value(k, v) that is written makes get_config_value(k)
\* return v, whether k had a row before or not, changes what no other key
\* reads as and changes no job; and get_config_value of a key without a row
\* returns None, not a default.
C21_ConfigRoundTrip ==
    [][/\ \A k \in ConfigKeys \cup {OtherKey}, v \in ConfigValues :
             SetConfigValue(k, v, FALSE) =>
                 /\ GetConfigValue(config', k, FALSE) = v
                 /\ \A k2 \in (ConfigKeys \cup {OtherKey}) \ {k} :
                       GetConfigValue(config', k2, FALSE) = GetConfigValue(config, k2, FALSE)
                 /\ jobs' = jobs
       /\ \A k \in (ConfigKeys \cup {OtherKey}) \ DOMAIN config :
             GetConfigValue(config, k, FALSE) = ConfigNone
      ]_vars

\* C21 witness: a key that had no row and a key that was seeded have both
\* been set, the seeded one to a value other than its seed, with a job in
\* the store.
C21_Witness ==
    /\ OtherKey \in DOMAIN config
    /\ GetConfigValue(config, OtherKey, FALSE) = "x"
    /\ GetConfigValue(config, "max_retries", FALSE) = "0"
    /\ GetConfigValue(config, "backoff_base", FALSE) = "2"
    /\ DOMAIN jobs # {}

\* C22: when the worker holding a job moves on from it, the job is no
\* longer in state processing: its outcome was written, or, the write
\* having failed, the worker forced the state to 'failed'.
C22_UnpersistedOutcomeForced ==
    [][\A w \in Workers :
          (pc[w] = "exec" /\ pc'[w] # "exec") =>
              jobs'[job[w].id].state # "processing"
      ]_vars

\* a step of fetch_pending_job in worker w that raises sqlite3.Error: the
\* database is locked past the busy timeout, or any other storage error
FetchFault(w) ==
    FetchBegin(w, TRUE) \/ FetchSelect(w, TRUE) \/ FetchMark(w, TRUE)

\* C23: a call of fetch_pending_job that meets a locked database or any
\* other storage error returns None, changes no job row and keeps no lock;
\* the worker sleeps and then polls again; and a worker leaves its loop
\* only from the top of the loop with the stop file present.
C23_FetchFaultIsNotFatal ==
    [][\A w \in Workers :
          /\ FetchFault(w) =>
                /\ jobs' = jobs
                /\ job'[w] = NoneJob
                /\ pc'[w] = "sleep"
                /\ dbLock' # w
          /\ pc[w] = "sleep" => pc'[w] \in {"sleep", "poll"}
          /\ (InLoop(w) /\ ~InLoop(w)') =>
                (stopFile /\ pc[w] = "poll" /\ pc'[w] = "unlink")
      ]_vars

\* C23 witness: one worker is inside its claim transaction with a job
\* selected, the other came back from its own call empty-handed and
\* sleeps, and the job is still pending.
C23_Witness ==
    \E w1, w2 \in Workers : \E i \in DOMAIN jobs :
        /\ w1 # w2
        /\ dbLock = w1 /\ pc[w1] = "mark" /\ job[w1].id = i
        /\ pc[w2] = "sleep" /\ job[w2] = NoneJob
        /\ jobs[i].state = "pending"
        /\ ~stopFile

\* C24: a row in state processing changes only in a step in which the
\* worker holding it reports on it and moves on; a claim by another worker,
\* an insert, a DLQ retry and a config change leave it as it is.  So a
\* processing job that no worker holds (its worker was killed, or its
\* outcome write was dropped) is never changed again.
C24_OnlyHolderChangesProcessing ==
    [][\A i \in DOMAIN jobs :
          jobs[i].state = "processing" =>
              /\ jobs'[i] # jobs[i] =>
                    \E w \in Workers : Holds(w, i) /\ pc'[w] \in {"poll", "sleep"}
              /\ (\A w \in Workers : ~Holds(w, i)) => jobs'[i] = jobs[i]
      ]_vars

\* C24 witness: the worker that claimed job i was killed with i in hand;
\* i is still processing after the other worker went through a job of its
\* own and the operator tried a DLQ retry of i.
C24_Witness ==
    \E w1, w2 \in Workers : \E i, k \in DOMAIN jobs :
        /\ w1 # w2 /\ i # k
        /\ pc[w1] = "killed" /\ job[w1].id = i
        /\ jobs[i].state = "processing"
        /\ jobs[k].state = "completed"
        /\ pc[w2] \in {"poll", "sleep"}
        /\ ret.op = "dlq_retry" /\ ret.id = i /\ ~ret.value

\* C25: with a worker that keeps running and meets no storage error, time
\* passing and every command ending, every pending job eventually is
\* completed or dead.
C25_PendingReachesEnd ==
    \A i \in Ids :
        (i \in DOMAIN jobs /\ jobs[i].state = "pending")
            ~> (i \in DOMAIN jobs /\ jobs[i].state \in {"completed", "dead"})

\* C26: a dead job (every run of which has failed, or it would not be
\* dead) has been executed, since its insert or its latest DLQ retry,
\* exactly max_retries times when max_retries >= 1 and exactly once when
\* max_retries = 0; and the attempts of a job with max_retries >= 1 never
\* exceed its max_retries.
C26_RetryBudget ==
    \A i \in DOMAIN jobs :
        /\ jobs[i].state = "dead" =>
              runs[i] = IF jobs[i].max_retries = 0 THEN 1 ELSE jobs[i].max_retries
        /\ jobs[i].max_retries >= 1 => jobs[i].attempts <= jobs[i].max_retries

\* C26 witness: a job with max_retries = 2 is dead for the second time:
\* retried from the DLQ at a later second than its insert, it has run
\* twice more.
C26_Witness ==
    \E i \in DOMAIN jobs :
        /\ jobs[i].state = "dead"
        /\ jobs[i].max_retries = 2
        /\ runs[i] = 2
        /\ jobs[i].attempts = 2
        /\ jobs[i].run_at > jobs[i].created_at + TimeDelta(1)
====
